---- MODULE Spec2Model ----
(***************************************************************************)
(* Model of the Capital Budgeting Excel Processor API (src/main.py).       *)
(*                                                                         *)
(* The process holds one global, excel_data, which startup_event fills     *)
(* from the worksheet on disk; three GET handlers scan it.  Handlers are   *)
(* coroutines with no suspension point, so each runs atomically.           *)
(*                                                                         *)
(* Representation.                                                         *)
(*  - A Python str is a sequence of one-character strings, so that         *)
(*    str.strip, the '%' test and float() work on characters.              *)
(*  - A number is an integer count of 1/Unit (fixed point).  The cells     *)
(*    drawn below have at most two fractional digits, so the division by   *)
(*    100 of a percentage is exact in this representation.  Binary         *)
(*    rounding of Python floats is not modelled.                           *)
(*  - A cell is a record with a tag t: "none" (Python None), "nan"         *)
(*    (float NaN), "num" (int or float, field v) or "str" (field s).       *)
(***************************************************************************)
EXTENDS Integers, Sequences, FiniteSets, TLC

VARIABLES
    excel_data,  \* the global excel_data: NoData (Python None) or the loaded grid
    started,     \* position of startup_event: "pending", "loaded" or "failed"
    last,        \* the last request served and its response
    seen         \* history: one request and the first response it got after load

vars == <<excel_data, started, last, seen>>

-----------------------------------------------------------------------------
(* Bounds of the model *)

\* rows of the worksheet: 1..MaxRows
MaxRows == 4

\* columns of the worksheet: 1..MaxCols
MaxCols == 3

\* rows of the worksheets whose rows are summed
MaxSumRows == 3

\* rows of the worksheets whose requests are remembered
MaxHistRows == 2

-----------------------------------------------------------------------------
(* Strings *)

Whitespace == {" ", "\t", "\n"}

Digits == <<"0","1","2","3","4","5","6","7","8","9">>

IsDigit(c) == \E i \in 1..10 : Digits[i] = c

DigitVal(c) == (CHOOSE i \in 1..10 : Digits[i] = c) - 1

\* str.strip(chars): drop leading and trailing characters that are in chars
RECURSIVE LStrip(_, _)
LStrip(s, chars) ==
    IF s # <<>> /\ Head(s) \in chars THEN LStrip(Tail(s), chars) ELSE s

RECURSIVE RStrip(_, _)
RStrip(s, chars) ==
    IF s # <<>> /\ s[Len(s)] \in chars
    THEN RStrip(SubSeq(s, 1, Len(s) - 1), chars)
    ELSE s

StripChars(s, chars) == RStrip(LStrip(s, chars), chars)

\* str.strip()
strip(s) == StripChars(s, Whitespace)

\* '%' in value
HasPercent(s) == \E i \in 1..Len(s) : s[i] = "%"

RECURSIVE Pow10(_)
Pow10(n) == IF n = 0 THEN 1 ELSE 10 * Pow10(n - 1)

\* decimal places of the fixed point: two for the cells as written and two
\* more for the division of a percentage by 100
FracPlaces == 2 + 2

\* the fixed-point denominator
Unit == Pow10(FracPlaces)

\* value of a run of decimal digits
RECURSIVE IntOf(_)
IntOf(d) ==
    IF d = <<>> THEN 0
    ELSE 10 * IntOf(SubSeq(d, 1, Len(d) - 1)) + DigitVal(d[Len(d)])

AllDigits(d) == \A i \in 1..Len(d) : IsDigit(d[i])

\* float(s) for a str: surrounding whitespace is ignored, then an optional
\* sign, then digits with an optional '.', at least one digit in all.
\* Anything else raises ValueError (ok = FALSE).  Exponents, underscores,
\* "inf" and "nan" are outside the alphabet of the cells drawn below.
ParseUnsigned(u) ==
    LET dots == {i \in 1..Len(u) : u[i] = "."}
    IN  IF dots = {}
        THEN IF u # <<>> /\ AllDigits(u)
             THEN [ok |-> TRUE, v |-> IntOf(u) * Unit]
             ELSE [ok |-> FALSE, v |-> 0]
        ELSE LET p  == CHOOSE i \in dots : \A j \in dots : i <= j
                 ip == SubSeq(u, 1, p - 1)
                 fp == SubSeq(u, p + 1, Len(u))
             IN  IF /\ AllDigits(ip) /\ AllDigits(fp)
                    /\ Len(ip) + Len(fp) > 0
                    /\ Len(fp) <= FracPlaces
                 THEN [ok |-> TRUE,
                       v  |-> IntOf(ip) * Unit + IntOf(fp) * Pow10(FracPlaces - Len(fp))]
                 ELSE [ok |-> FALSE, v |-> 0]

ParseFloat(s) ==
    LET t == strip(s)
    IN  IF t # <<>> /\ Head(t) = "-"
        THEN LET r == ParseUnsigned(Tail(t)) IN [ok |-> r.ok, v |-> 0 - r.v]
        ELSE IF t # <<>> /\ Head(t) = "+"
        THEN ParseUnsigned(Tail(t))
        ELSE ParseUnsigned(t)

\* decimal digits of a natural number
RECURSIVE DigitsOf(_)
DigitsOf(n) ==
    IF n < 10 THEN <<Digits[n + 1]>>
    ELSE DigitsOf(n \div 10) \o <<Digits[(n % 10) + 1]>>

\* the fraction f (0 < f < Unit) as repr prints it: no trailing zeros
FracDigits(f) ==
    LET d      == DigitsOf(f)
        padded == [i \in 1..(FracPlaces - Len(d)) |-> "0"] \o d
    IN  RStrip(padded, {"0"})

\* str(x) of a number: an int prints its digits, a float its shortest repr
StrOfNum(v) ==
    LET a    == IF v < 0 THEN 0 - v ELSE v
        sign == IF v < 0 THEN <<"-">> ELSE <<>>
    IN  IF a % Unit = 0
        THEN sign \o DigitsOf(a \div Unit)
        ELSE sign \o DigitsOf(a \div Unit) \o <<".">> \o FracDigits(a % Unit)

-----------------------------------------------------------------------------
(* The eight table headers *)

\* "INITIAL INVESTMENT"
INITIAL_INVESTMENT ==
    <<"I","N","I","T","I","A","L"," ","I","N","V","E","S","T","M","E","N","T">>

\* "CASHFLOW DETAILS"
CASHFLOW_DETAILS ==
    <<"C","A","S","H","F","L","O","W"," ","D","E","T","A","I","L","S">>

\* "DISCOUNT RATE"
DISCOUNT_RATE ==
    <<"D","I","S","C","O","U","N","T"," ","R","A","T","E">>

\* "WORKING CAPITAL"
WORKING_CAPITAL ==
    <<"W","O","R","K","I","N","G"," ","C","A","P","I","T","A","L">>

\* "GROWTH RATES"
GROWTH_RATES ==
    <<"G","R","O","W","T","H"," ","R","A","T","E","S">>

\* "SALVAGE VALUE"
SALVAGE_VALUE ==
    <<"S","A","L","V","A","G","E"," ","V","A","L","U","E">>

\* "OPERATING CASHFLOWS"
OPERATING_CASHFLOWS ==
    <<"O","P","E","R","A","T","I","N","G"," ","C","A","S","H","F","L","O","W","S">>

\* "BOOK VALUE & DEPRECIATION"
BOOK_VALUE_DEPRECIATION ==
    <<"B","O","O","K"," ","V","A","L","U","E"," ","&"," ","D","E","P","R","E","C","I","A","T","I","O","N">>

TableHeaders ==
    { INITIAL_INVESTMENT, CASHFLOW_DETAILS, DISCOUNT_RATE, WORKING_CAPITAL,
      GROWTH_RATES, SALVAGE_VALUE, OPERATING_CASHFLOWS, BOOK_VALUE_DEPRECIATION }

-----------------------------------------------------------------------------
(* Cells *)

None == [t |-> "none", v |-> 0, s |-> <<>>]

NaN == [t |-> "nan", v |-> 0, s |-> <<>>]

\* the number n / Unit
Num(n) == [t |-> "num", v |-> n, s |-> <<>>]

Str(s) == [t |-> "str", v |-> 0, s |-> s]

\* bool(x): None, 0 and "" are false; NaN is true
Truthy(c) ==
    CASE c.t = "none" -> FALSE
      [] c.t = "nan"  -> TRUE
      [] c.t = "num"  -> c.v # 0
      [] c.t = "str"  -> c.s # <<>>

\* isinstance(x, str)
IsStr(c) == c.t = "str"

\* str(x)
StrOf(c) ==
    CASE c.t = "none" -> <<"N","o","n","e">>
      [] c.t = "nan"  -> <<"n","a","n">>
      [] c.t = "num"  -> StrOfNum(c.v)
      [] c.t = "str"  -> c.s

\* pd.isna(x) for a scalar; pd.notna is its negation
isna(c) == c.t \in {"none", "nan"}

\* float(x): a number converts to itself, a str is parsed, None raises
\* TypeError (ok = FALSE).  The handlers test isna before float, so NaN
\* never reaches it.
Float(c) ==
    CASE c.t = "none" -> [ok |-> FALSE, v |-> 0]
      [] c.t = "nan"  -> [ok |-> FALSE, v |-> 0]
      [] c.t = "num"  -> [ok |-> TRUE, v |-> c.v]
      [] c.t = "str"  -> ParseFloat(c.s)

-----------------------------------------------------------------------------
(* The grid: a sequence of rows, each a sequence of cells; rows and columns *)
(* are numbered from 1 here and from 0 in the source.                       *)

NoData == <<>>

NumRows(df) == Len(df)

NumCols(df) == IF df = <<>> THEN 0 ELSE Len(df[1])

\* a column holding a str is of dtype object; a column of numbers and
\* empty cells is float64
ObjectColumn(df, j) == \E i \in 1..NumRows(df) : df[i][j].t = "str"

\* df.where(pd.notnull(df), None): an empty cell of an object column becomes
\* None; in a float64 column it becomes None where pandas casts the column
\* to object and stays NaN where pandas keeps the dtype (keepsDtype)
where_notnull(df, keepsDtype) ==
    [i \in 1..NumRows(df) |->
        [j \in 1..NumCols(df) |->
            IF df[i][j].t # "nan" THEN df[i][j]
            ELSE IF ObjectColumn(df, j) \/ ~keepsDtype THEN None
            ELSE NaN]]

-----------------------------------------------------------------------------
(* Responses *)

Response(status, detail, tables, row_names, sum, target_row) ==
    [status |-> status, detail |-> detail, tables |-> tables,
     row_names |-> row_names, sum |-> sum, target_row |-> target_row]

\* HTTPException(status_code, detail); the name in the message is the
\* request's and is kept in last
HTTPException(status, detail) == Response(status, detail, <<>>, <<>>, 0, 0)

NotLoaded == HTTPException(500, "Excel data not loaded")

TableNotFound == HTTPException(404, "Table not found")

RowNotFoundInTable == HTTPException(404, "Row not found in table")

RowNotFoundInData == HTTPException(404, "Row not found in Excel data")

\* an exception no handler catches: the framework answers 500
Unhandled(exc) == HTTPException(500, exc)

-----------------------------------------------------------------------------
(* GET /list_tables *)

IsHeaderCell(c) == Truthy(c) /\ IsStr(c) /\ strip(c.s) \in TableHeaders

RECURSIVE TablesFrom(_, _)
TablesFrom(df, i) ==
    IF i > NumRows(df) THEN <<>>
    ELSE IF IsHeaderCell(df[i][1])
         THEN <<strip(df[i][1].s)>> \o TablesFrom(df, i + 1)
         ELSE TablesFrom(df, i + 1)

\* the handler without its test of the global
list_tables_NoGuard(data) ==
    Response(200, "ok", TablesFrom(data, 1), <<>>, 0, 0)

list_tables(data) ==
    IF data = NoData THEN NotLoaded
    ELSE Response(200, "ok", TablesFrom(data, 1), <<>>, 0, 0)

-----------------------------------------------------------------------------
(* GET /get_table_details *)

\* the comparison without strip()
RECURSIVE FindHeader_NoStrip(_, _, _)
FindHeader_NoStrip(df, table_name, i) ==
    IF i > NumRows(df) THEN 0
    ELSE IF /\ Truthy(df[i][1]) /\ IsStr(df[i][1])
            /\ df[i][1].s = table_name
         THEN i
         ELSE FindHeader_NoStrip(df, table_name, i + 1)

\* the first row whose column 0 is a str that strips to table_name; 0 is
\* header_row = None
RECURSIVE FindHeader(_, _, _)
FindHeader(df, table_name, i) ==
    IF i > NumRows(df) THEN 0
    ELSE IF /\ Truthy(df[i][1]) /\ IsStr(df[i][1])
            /\ strip(df[i][1].s) = table_name
         THEN i
         ELSE FindHeader(df, table_name, i + 1)

\* the loop without its second break: it runs on through the next header
RECURSIVE CollectRows_NoHeaderBreak(_, _)
CollectRows_NoHeaderBreak(df, current_row) ==
    IF ~(current_row <= NumRows(df)) THEN <<>>
    ELSE LET row_name == df[current_row][1]
         IN  IF row_name.t = "none" \/ strip(StrOf(row_name)) = <<>> THEN <<>>
             ELSE <<strip(StrOf(row_name))>>
                  \o CollectRows_NoHeaderBreak(df, current_row + 1)

\* the while loop from current_row on
RECURSIVE CollectRows(_, _)
CollectRows(df, current_row) ==
    IF ~(current_row <= NumRows(df)) THEN <<>>
    ELSE LET row_name == df[current_row][1]
         IN  IF row_name.t = "none" \/ strip(StrOf(row_name)) = <<>> THEN <<>>
             ELSE IF IsStr(row_name) /\ strip(row_name.s) \in TableHeaders THEN <<>>
             ELSE <<strip(StrOf(row_name))>> \o CollectRows(df, current_row + 1)

get_table_details(data, table_name) ==
    IF data = NoData THEN NotLoaded
    ELSE LET header_row == FindHeader(data, table_name, 1)
         IN  IF header_row = 0 THEN TableNotFound
             ELSE Response(200, "ok", <<>>, CollectRows(data, header_row + 1), 0, 0)

-----------------------------------------------------------------------------
(* GET /row_sum *)

\* current_row_name of the second scan; <<>> with found FALSE is None
current_row_name(c) ==
    IF Truthy(c) THEN [some |-> TRUE, s |-> strip(StrOf(c))]
    ELSE [some |-> FALSE, s |-> <<>>]

\* the first row of the whole grid whose current_row_name is row_name; 0 is
\* target_row = None
RECURSIVE FindRow(_, _, _)
FindRow(df, row_name, i) ==
    IF i > NumRows(df) THEN 0
    ELSE IF current_row_name(df[i][1]) = [some |-> TRUE, s |-> row_name]
         THEN i
         ELSE FindRow(df, row_name, i + 1)

\* the loop body without the branch for '%'
CellTerm_NoPercentBranch(value) ==
    IF ~isna(value)
    THEN LET f == Float(value)
         IN  IF f.ok THEN f.v ELSE 0
    ELSE 0

\* what one cell adds in the loop over the columns: the try block either
\* adds to sum_value or is left by continue
CellTerm(value) ==
    IF ~isna(value)
    THEN IF IsStr(value) /\ HasPercent(value.s)
         THEN LET f == ParseFloat(StripChars(value.s, {"%"}))
              IN  IF f.ok THEN f.v \div 100 ELSE 0
         ELSE LET f == Float(value)
              IN  IF f.ok THEN f.v ELSE 0
    ELSE 0

\* for col in range(start_col, end_col), start_col + 1 .. end_col here
RECURSIVE SumColumns(_, _, _, _)
SumColumns(df, target_row, col, sum_value) ==
    IF col > NumCols(df) THEN sum_value
    ELSE SumColumns(df, target_row, col + 1,
                    sum_value + CellTerm(df[target_row][col]))

\* column C, index 2 in the source
value_col == 3

\* the branch reading column A instead of column C
InitialInvestmentSum_ColumnA(df, target_row) ==
    LET f == Float(df[target_row][1])
    IN  [raised |-> FALSE, sum |-> IF f.ok THEN f.v ELSE 0]

\* the INITIAL INVESTMENT branch: iloc raises IndexError, which the except
\* clause does not name, when the grid has no column C
InitialInvestmentSum(df, target_row) ==
    IF value_col > NumCols(df) THEN [raised |-> TRUE, sum |-> 0]
    ELSE LET value == df[target_row][value_col]
         IN  [raised |-> FALSE,
              sum |-> IF isna(value) THEN 0
                      ELSE IF IsStr(value) /\ HasPercent(value.s)
                      THEN LET f == ParseFloat(StripChars(value.s, {"%"}))
                           IN  IF f.ok THEN f.v \div 100 ELSE 0
                      ELSE LET f == Float(value)
                           IN  IF f.ok THEN f.v ELSE 0]

InRowNames(row_name, row_names) ==
    \E i \in 1..Len(row_names) : row_names[i] = row_name

calculate_row_sum(data, table_name, row_name) ==
    IF data = NoData THEN NotLoaded
    ELSE LET table_details == get_table_details(data, table_name)
         IN  IF table_details.status # 200 THEN table_details
             ELSE IF ~InRowNames(row_name, table_details.row_names)
             THEN RowNotFoundInTable
             ELSE LET target_row == FindRow(data, row_name, 1)
                  IN  IF target_row = 0 THEN RowNotFoundInData
                      ELSE IF table_name = INITIAL_INVESTMENT
                      THEN LET r == InitialInvestmentSum(data, target_row)
                           IN  IF r.raised THEN Unhandled("IndexError")
                               ELSE Response(200, "ok", <<>>, <<>>, r.sum, target_row)
                      ELSE Response(200, "ok", <<>>, <<>>,
                                    SumColumns(data, target_row, 1, 0), target_row)

-----------------------------------------------------------------------------
(* Startup *)

\* load_excel_data: the file is missing, or the reader fails, or the grid
\* is stored
load_excel_data(file, keepsDtype) ==
    IF ~file.exists THEN [ok |-> FALSE, data |-> NoData]
    ELSE IF ~file.readable THEN [ok |-> FALSE, data |-> NoData]
    ELSE [ok |-> TRUE, data |-> where_notnull(file.cells, keepsDtype)]

-----------------------------------------------------------------------------
(* The worksheets and the requests the model draws *)

\* the reader returns NaN for an empty cell
Empty == NaN

Chars_0 == <<"0">>

Chars_7 == <<"7">>

Chars_x == <<"x">>

\* Kinds of rows, each the cell of column 0 and the cells to its right.
\* For the lookups: both headers (one padded), a padded str label, the
\* number 0, an empty cell and a cell of whitespace.
LookupKinds ==
    { <<Str(INITIAL_INVESTMENT), <<Empty, Empty>>>>,
      <<Str(<<" ">> \o CASHFLOW_DETAILS \o <<" ">>), <<Empty, Empty>>>>,
      <<Str(Chars_0 \o <<" ">>), <<Num(100 * Unit), Str(<<"1","2",".","5","%">>)>>>>,
      <<Num(0), <<Empty, Num(3 * Unit)>>>>,
      <<Empty, <<Num(5 * Unit), Empty>>>>,
      <<Str(<<" ">>), <<Empty, Empty>>>> }

\* For the sums: both headers, a label that reads as a number over empty
\* cells, a label that does not over empty cells, a row of a number and a
\* percentage, a row of cells float() rejects under a number as label.
SumKinds ==
    { <<Str(INITIAL_INVESTMENT), <<Empty, Empty>>>>,
      <<Str(CASHFLOW_DETAILS), <<Empty, Empty>>>>,
      <<Str(<<" ">> \o Chars_7), <<Empty, Empty>>>>,
      <<Str(Chars_x \o <<" ">>), <<Empty, Empty>>>>,
      <<Str(Chars_x), <<Num(100 * Unit), Str(<<"1","2",".","5","%">>)>>>>,
      <<Num(7 * Unit), <<Str(<<"x">>), Str(<<"1","%","2">>)>>>> }

\* a row of kind k cut or padded with empty cells to w columns
RowOf(k, w) ==
    [j \in 1..w |->
        IF j = 1 THEN k[1]
        ELSE IF j - 1 <= Len(k[2]) THEN k[2][j - 1]
        ELSE Empty]

\* the sheets of 1..maxRows rows of the kinds, w columns wide
SheetsOf(kinds, maxRows, w) ==
    UNION { [1..n -> {RowOf(k, w) : k \in kinds}] : n \in 1..maxRows }

File(cells) == [exists |-> TRUE, readable |-> TRUE, cells |-> cells]

BadFiles ==
    { [exists |-> FALSE, readable |-> FALSE, cells |-> <<>>],
      [exists |-> TRUE, readable |-> FALSE, cells |-> <<>>] }

LookupFiles ==
    BadFiles \cup { File(g) : g \in SheetsOf(LookupKinds, MaxRows, MaxCols) }

SumFiles ==
    BadFiles \cup
    { File(g) : g \in UNION { SheetsOf(SumKinds, MaxSumRows, w) : w \in 1..MaxCols } }

HistFiles ==
    BadFiles \cup
    { File(g) : g \in UNION { SheetsOf(LookupKinds, MaxHistRows, w) : w \in 1..MaxCols } }

LookupTables == { INITIAL_INVESTMENT, CASHFLOW_DETAILS, Chars_0 }

LookupRows == { Chars_0 }

SumTables == { INITIAL_INVESTMENT, CASHFLOW_DETAILS }

SumRows == { Chars_x, Chars_7 }

Request(endpoint, table_name, row_name) ==
    [endpoint |-> endpoint, table_name |-> table_name, row_name |-> row_name]

NoRequest == Request("none", <<>>, <<>>)

NoResponse == Response(0, "none", <<>>, <<>>, 0, 0)

Nothing == [req |-> NoRequest, resp |-> NoResponse, again |-> FALSE]

-----------------------------------------------------------------------------
(* The state machine *)

Init ==
    /\ excel_data = NoData
    /\ started = "pending"
    /\ last = [req |-> NoRequest, resp |-> NoResponse]
    /\ seen = Nothing

\* startup_event: runs once; a failed load leaves the global as it was
startup_event(files) ==
    /\ started = "pending"
    /\ \E file \in files : \E keepsDtype \in BOOLEAN :
          LET r == load_excel_data(file, keepsDtype)
          IN  IF r.ok
              THEN excel_data' = r.data /\ started' = "loaded"
              ELSE excel_data' = excel_data /\ started' = "failed"
    /\ UNCHANGED <<last, seen>>

\* a handler that drops the first row of the grid as it answers
Serve_ConsumesRow(req, resp) ==
    /\ last' = [req |-> req, resp |-> resp]
    /\ excel_data' = IF Len(excel_data) > 1 THEN Tail(excel_data) ELSE excel_data
    /\ UNCHANGED started

\* a request is served: the response is recorded, nothing else changes
Serve(req, resp) ==
    /\ last' = [req |-> req, resp |-> resp]
    /\ UNCHANGED <<excel_data, started>>

ListTables ==
    Serve(Request("list_tables", <<>>, <<>>), list_tables(excel_data))

GetTableDetails(table_name) ==
    Serve(Request("get_table_details", table_name, <<>>),
          get_table_details(excel_data, table_name))

RowSum(table_name, row_name) ==
    Serve(Request("row_sum", table_name, row_name),
          calculate_row_sum(excel_data, table_name, row_name))

\* GET /
root ==
    Serve(Request("root", <<>>, <<>>), Response(200, "ok", <<>>, <<>>, 0, 0))

\* history: after load, any one served request may be remembered with the
\* response it got; again records that it was served once more later
Remember ==
    IF seen = Nothing
    THEN \/ seen' = seen
         \/ /\ started = "loaded"
            /\ seen' = [req |-> last'.req, resp |-> last'.resp, again |-> FALSE]
    ELSE IF last'.req = seen.req
         THEN seen' = [seen EXCEPT !.again = TRUE]
         ELSE seen' = seen

\* The handlers are enabled in every state of the startup, also before it
\* and after it failed: a server that skips or survives the startup event
\* calls them with excel_data still None.

\* sheets and requests about the lookups
Next ==
    \/ startup_event(LookupFiles)
    \/ ListTables /\ UNCHANGED seen
    \/ \E table_name \in LookupTables :
          GetTableDetails(table_name) /\ UNCHANGED seen
    \/ \E table_name \in LookupTables : \E row_name \in LookupRows :
          RowSum(table_name, row_name) /\ UNCHANGED seen
    \/ root /\ UNCHANGED seen

Spec == Init /\ [][Next]_vars

\* sheets and requests about the sums
NextSum ==
    \/ startup_event(SumFiles)
    \/ ListTables /\ UNCHANGED seen
    \/ \E table_name \in SumTables :
          GetTableDetails(table_name) /\ UNCHANGED seen
    \/ \E table_name \in SumTables : \E row_name \in SumRows :
          RowSum(table_name, row_name) /\ UNCHANGED seen
    \/ root /\ UNCHANGED seen

SpecSum == Init /\ [][NextSum]_vars

\* small sheets, with the history kept
NextHist ==
    \/ startup_event(HistFiles)
    \/ ListTables /\ Remember
    \/ \E table_name \in LookupTables :
          GetTableDetails(table_name) /\ Remember
    \/ \E table_name \in LookupTables : \E row_name \in LookupRows :
          RowSum(table_name, row_name) /\ Remember
    \/ root /\ Remember

SpecHist == Init /\ [][NextHist]_vars

-----------------------------------------------------------------------------
(* Vocabulary of the claims *)

Served(endpoint) == last.req.endpoint = endpoint

\* the cell of column 0 of row i of the loaded grid
Col0(i) == excel_data[i][1]

\* an empty or absent cell
Blank(c) == c.t \in {"none", "nan"}

\* the trimmed column-0 value of a cell that is not blank
Label(c) == strip(StrOf(c))

\* a row that ends a table: blank, whitespace only, or one of the headers
IsBoundary(c) ==
    \/ Blank(c)
    \/ Label(c) = <<>>
    \/ c.t = "str" /\ Label(c) \in TableHeaders

Least(S) == CHOOSE i \in S : \A j \in S : i <= j

\* the rows whose column 0 is a str trimming to name
HeaderRowsOf(name) ==
    {i \in 1..NumRows(excel_data) : Col0(i).t = "str" /\ Label(Col0(i)) = name}

-----------------------------------------------------------------------------
\* C1: listRows(tableName) finds the first row whose column-0 str trims to
\* tableName and returns exactly the trimmed column-0 values of the rows that
\* follow it, in order, up to and excluding the first row that is past the
\* end of the grid, blank, whitespace only, or a header label.
C1_ListRowsIsTheSpanAfterTheHeader ==
    (Served("get_table_details") /\ last.resp.status \in {200, 404}) =>
        LET hs == HeaderRowsOf(last.req.table_name)
            names == last.resp.row_names
            n == Len(names)
        IN  IF hs = {} THEN last.resp.status = 404
            ELSE LET h == Least(hs)
                 IN  /\ last.resp.status = 200
                     /\ h + n <= NumRows(excel_data)
                     /\ \A k \in 1..n :
                           /\ ~IsBoundary(Col0(h + k))
                           /\ names[k] = Label(Col0(h + k))
                     /\ \/ h + n = NumRows(excel_data)
                        \/ IsBoundary(Col0(h + n + 1))

\* a header's table of two rows, a padded label and a number, closed by the
\* next header
C1_Witness ==
    /\ Served("get_table_details")
    /\ last.resp.status = 200
    /\ last.req.table_name \in TableHeaders
    /\ Len(last.resp.row_names) = 2
    /\ LET h == Least(HeaderRowsOf(last.req.table_name))
       IN  /\ h + 3 <= NumRows(excel_data)
           /\ Col0(h + 2).t = "num"
           /\ Col0(h + 1).t = "str" /\ Col0(h + 1).s # Label(Col0(h + 1))
           /\ Col0(h + 3).t = "str" /\ Label(Col0(h + 3)) \in TableHeaders

-----------------------------------------------------------------------------
\* C2: every label listTables returns, repeated labels included, is a name
\* listRows accepts: it never answers "Table not found" to it.
C2_ListedTablesAreFound ==
    (Served("list_tables") /\ last.resp.status = 200) =>
        \A k \in 1..Len(last.resp.tables) :
            get_table_details(excel_data, last.resp.tables[k]).status = 200

\* listTables returned a label twice, from a padded header cell
C2_Witness ==
    /\ Served("list_tables")
    /\ last.resp.status = 200
    /\ \E i, j \in 1..Len(last.resp.tables) :
          i < j /\ last.resp.tables[i] = last.resp.tables[j]
    /\ \E i \in 1..NumRows(excel_data) :
          /\ Col0(i).t = "str"
          /\ Col0(i).s # Label(Col0(i))
          /\ Label(Col0(i)) \in TableHeaders

\* C3 as claimed: a tableName that is not among the labels listTables returns
\* makes listRows and rowSum answer 404 "Table not found".
C3_UnlistedTableIsNotFound ==
    ( /\ Served("get_table_details") \/ Served("row_sum")
      /\ last.resp # NotLoaded
      /\ ~InRowNames(last.req.table_name, list_tables(excel_data).tables) )
    => last.resp = TableNotFound

-----------------------------------------------------------------------------
\* C7: while no load has succeeded the three data endpoints answer 500
\* "Excel data not loaded" whatever their arguments; a failed load leaves the
\* process not loaded; data is served only after a load has succeeded.
DataEndpoints == {"list_tables", "get_table_details", "row_sum"}

C7_NotLoadedUntilALoadSucceeds ==
    [][ /\ (excel_data = NoData) = (started # "loaded")
        /\ (started' = "failed") => (excel_data' = NoData)
        /\ (last' # last /\ last'.req.endpoint \in DataEndpoints) =>
              IF started = "loaded"
              THEN last'.resp # NotLoaded
              ELSE last'.resp = NotLoaded ]_vars

\* a sum was asked for after the load had failed
C7_Witness ==
    /\ started = "failed"
    /\ Served("row_sum")
    /\ last.resp = NotLoaded

-----------------------------------------------------------------------------
\* the rows of the whole grid whose trimmed column-0 value is name
RowsLabelled(name) ==
    {i \in 1..NumRows(excel_data) : ~Blank(Col0(i)) /\ Label(Col0(i)) = name}

\* C9 as claimed: rowSum sums the first row of the whole grid whose trimmed
\* column-0 value equals rowName, whichever table was asked for.
C9_SumsFirstRowOfTheGrid ==
    ( /\ Served("row_sum")
      /\ last.resp.status = 200
      /\ last.req.table_name \in TableHeaders ) =>
        /\ RowsLabelled(last.req.row_name) # {}
        /\ last.resp.target_row = Least(RowsLabelled(last.req.row_name))

\* C10 as claimed: "Row not found in Excel data" is never the answer.
C10_SecondScanAlwaysFinds ==
    last.resp # RowNotFoundInData

-----------------------------------------------------------------------------
(* Sums *)

\* the row a successful rowSum located
LocatedRow == excel_data[last.resp.target_row]

\* the text of a percentage without the '%' signs at its ends
WithoutPercent(s) == StripChars(s, {"%"})

\* what a cell contributes to a sum: nothing when blank, a percentage its
\* number over 100, any other cell its numeric value, nothing when it does
\* not parse
Contribution(c) ==
    CASE Blank(c) -> 0
      [] c.t = "num" -> c.v
      [] c.t = "str" /\ HasPercent(c.s) ->
            IF ParseFloat(WithoutPercent(c.s)).ok
            THEN ParseFloat(WithoutPercent(c.s)).v \div 100
            ELSE 0
      [] OTHER -> IF ParseFloat(c.s).ok THEN ParseFloat(c.s).v ELSE 0

RECURSIVE Total(_, _)
Total(row, cols) ==
    IF cols = {} THEN 0
    ELSE LET j == CHOOSE j \in cols : TRUE
         IN  Contribution(row[j]) + Total(row, cols \ {j})

\* the row of the label x, the number 100 and the percentage 12.5%
RowOfHundredAndPercent == RowOf(<<Str(Chars_x), <<Num(100 * Unit), Str(<<"1","2",".","5","%">>)>>>>, 3)

\* C4: for a table other than INITIAL INVESTMENT a successful rowSum is the
\* sum of the contributions of all the cells of the located row, column 0
\* included; "12.5%" contributes 0.125 and a cell that does not parse
\* contributes nothing and changes no other contribution.
C4_SumIsTotalOfContributions ==
    ( /\ Served("row_sum")
      /\ last.resp.status = 200
      /\ last.req.table_name # INITIAL_INVESTMENT ) =>
        /\ last.resp.sum = Total(LocatedRow, 1..NumCols(excel_data))
        /\ (LocatedRow = RowOfHundredAndPercent) =>
              (last.resp.sum = 100 * Unit + (125 * Unit) \div 1000)

\* the sum of a row of a label that does not parse, a number and a percentage
C4_Witness ==
    /\ Served("row_sum")
    /\ last.resp.status = 200
    /\ last.req.table_name = CASHFLOW_DETAILS
    /\ LocatedRow = RowOfHundredAndPercent

\* the answers of rowSum that precede locating the row
BeforeLocated ==
    {NotLoaded, TableNotFound, RowNotFoundInTable, RowNotFoundInData}

\* C5 as claimed: for INITIAL INVESTMENT, once the row is located, rowSum
\* returns a sum, never an error, and the sum is the contribution of the cell
\* at column index 2 alone, 0 when that cell is absent or empty.
C5_InitialInvestmentReadsColumnC ==
    ( /\ Served("row_sum")
      /\ last.req.table_name = INITIAL_INVESTMENT
      /\ last.resp \notin BeforeLocated ) =>
        /\ last.resp.status = 200
        /\ last.resp.sum =
              IF NumCols(excel_data) < 3 THEN 0
              ELSE Contribution(LocatedRow[3])

\* every cell to the right of column 0 is blank
DataCellsBlank(row) == \A j \in 2..Len(row) : Blank(row[j])

\* C6 as claimed: a successful rowSum of a row whose data cells are all blank
\* is 0.
C6_BlankRowSumsToZero ==
    (Served("row_sum") /\ last.resp.status = 200 /\ DataCellsBlank(LocatedRow))
    => last.resp.sum = 0

\* a label that is a number or reads as one
NumericLabel(c) ==
    \/ c.t = "num"
    \/ c.t = "str" /\ ParseFloat(c.s).ok
    \/ c.t = "str" /\ HasPercent(c.s) /\ ParseFloat(WithoutPercent(c.s)).ok

\* C6 as amended: a successful rowSum of a row whose data cells are all blank
\* is 0 when the table is INITIAL INVESTMENT or the column-0 label is not
\* itself numeric.
C6_BlankRowSumsToZeroUnlessLabelNumeric ==
    ( /\ Served("row_sum")
      /\ last.resp.status = 200
      /\ DataCellsBlank(LocatedRow)
      /\ \/ last.req.table_name = INITIAL_INVESTMENT
         \/ ~NumericLabel(LocatedRow[1]) )
    => last.resp.sum = 0

\* under CASHFLOW DETAILS, a row of a label and two empty cells was summed
C6_Witness ==
    /\ Served("row_sum")
    /\ last.resp.status = 200
    /\ last.req.table_name = CASHFLOW_DETAILS
    /\ Len(LocatedRow) = 3
    /\ DataCellsBlank(LocatedRow)
    /\ ~NumericLabel(LocatedRow[1])

-----------------------------------------------------------------------------
\* C8: once loaded, no request changes the grid, whatever it answers, and a
\* request served again with the same inputs gets the response it got before.
C8_RequestsLeaveGridAndRepeat ==
    [][ /\ (started = "loaded") => (excel_data' = excel_data)
        /\ (seen # Nothing /\ last'.req = seen.req) => (last'.resp = seen.resp) ]_vars

\* a request that failed with 404 was served again after another request
C8_Witness ==
    /\ seen # Nothing
    /\ seen.again
    /\ seen.resp.status = 404
    /\ last.req # seen.req

====
